---- MODULE Spec2Model ----
(***************************************************************************)
(* Model of nlp_api.py: the process-wide model cache (nlp_model,           *)
(* model_loaded), the provisioner (load_model, load_model_from_s3), the    *)
(* request handler (lambda_handler) and inference (predict_toxicity).      *)
(*                                                                         *)
(* An invocation of lambda_handler is a sequence of steps separated by     *)
(* the calls that leave the process (remote listing, one download per      *)
(* object, the local model load, the inference call).  The local disk is   *)
(* a set of files; a file is <<directory, relative path>>, where the       *)
(* directory is the parent under which toxic_chat_model_full/ lives:       *)
(* WellKnownDir stands for /tmp, k > 0 for the k-th directory made by      *)
(* tempfile.mkdtemp().  Scores are integers in units of 1/Scale.           *)
(***************************************************************************)
EXTENDS Integers, Sequences, FiniteSets, TLC

VARIABLES nlp_model, model_loaded, files, nextTmp, epoch, lastProv, overlap, inv

vars == <<nlp_model, model_loaded, files, nextTmp, epoch, lastProv, overlap, inv>>

(* ----------------------------- bounds ---------------------------------- *)
MaxTmp == 3
MaxEpoch == 2
Scale == 2

Slots == {1, 2}
Texts == {"hi", "yo"}

(* --------------------------- constants --------------------------------- *)
None == -1
WellKnownDir == 0
MarkerFile == "config.cfg"
Prefix == "toxic_chat_model_full/"

\* The objects listed under the prefix: <<prefix, rest of the key>>.  The
\* first is the folder entry (its key ends with '/').
RemoteContents ==
  << <<Prefix, "">>, <<Prefix, "config.cfg">>, <<Prefix, "textcat/model">> >>

BodyStrings ==
  { "{\"text\": \"hi\"}", "{\"text\": \"yo\"}", "{}", "not json", "5", "\"context\"" }

Events ==
  { [hasBody |-> hb, body |-> IF hb THEN b ELSE "",
     hasText |-> ht, text |-> IF ht THEN t ELSE ""] :
       hb \in BOOLEAN, b \in BodyStrings, ht \in BOOLEAN, t \in Texts }

NoEvent == [hasBody |-> FALSE, body |-> "", hasText |-> FALSE, text |-> ""]

(* ------------------------ python values -------------------------------- *)
\* A parsed JSON value or the event dict: kind, whether 'text' in value
\* holds (key of a dict, substring of a str), and the value under 'text'.
PyDict(has, text) == [kind |-> "dict", has |-> has, text |-> text]
PyStr(has) == [kind |-> "str", has |-> has, text |-> ""]
PyInt == [kind |-> "int", has |-> FALSE, text |-> ""]

Ok(v) == [raised |-> FALSE, msg |-> "", value |-> v]
Raise(m) == [raised |-> TRUE, msg |-> m, value |-> PyInt]

\* A parser that yields an empty object for text that is not JSON.
JsonLoadsLenient(s) ==
  CASE s = "{\"text\": \"hi\"}" -> Ok(PyDict(TRUE, "hi"))
    [] s = "{\"text\": \"yo\"}" -> Ok(PyDict(TRUE, "yo"))
    [] s = "{}" -> Ok(PyDict(FALSE, ""))
    [] s = "5" -> Ok(PyInt)
    [] s = "\"context\"" -> Ok(PyStr(TRUE))
    [] OTHER -> Ok(PyDict(FALSE, ""))

\* json.loads on the body strings of the model.
JsonLoads(s) ==
  CASE s = "{\"text\": \"hi\"}" -> Ok(PyDict(TRUE, "hi"))
    [] s = "{\"text\": \"yo\"}" -> Ok(PyDict(TRUE, "yo"))
    [] s = "{}" -> Ok(PyDict(FALSE, ""))
    [] s = "5" -> Ok(PyInt)
    [] s = "\"context\"" -> Ok(PyStr(TRUE))
    [] OTHER -> Raise("Expecting value: line 1 column 1 (char 0)")

\* The parse that takes a top-level text when the event has one.
ParseBodyTopLevelFirst(event) ==
  IF event.hasText THEN Ok(PyDict(TRUE, event.text))
  ELSE IF event.hasBody THEN JsonLoads(event.body)
  ELSE Ok(PyDict(event.hasText, event.text))

\* Lines 101-107: the envelope's body is parsed, a direct event is the body.
ParseBody(event) ==
  IF event.hasBody THEN JsonLoads(event.body)
  ELSE Ok(PyDict(event.hasText, event.text))

\* The validation that never reports a missing key.
MissingTextNever(body) ==
  IF body.kind = "int" THEN Raise("argument of type 'int' is not iterable")
  ELSE [raised |-> FALSE, msg |-> "", value |-> FALSE]

\* Line 109: 'text' not in body.
MissingText(body) ==
  IF body.kind = "int" THEN Raise("argument of type 'int' is not iterable")
  ELSE [raised |-> FALSE, msg |-> "", value |-> ~body.has]

\* Line 121: body['text'].
Subscript(body) ==
  CASE body.kind = "dict" /\ body.has -> Ok(body.text)
    [] body.kind = "dict" /\ ~body.has -> Raise("'text'")
    [] body.kind = "str" -> Raise("string indices must be integers, not 'str'")
    [] OTHER -> Raise("'int' object is not subscriptable")

(* --------------------------- responses --------------------------------- *)
JsonDumps(d) == [json |-> d]

Headers ==
  ("Content-Type" :> "application/json") @@ ("Access-Control-Allow-Origin" :> "*")

\* The slot's response before lambda_handler has returned.
NoResponse == [statusCode |-> 0, headers |-> Headers, body |-> [json |-> [none |-> ""]]]

\* The 400 response built without the cross-origin header.
BadRequestNoCors ==
  [statusCode |-> 400, headers |-> ("Content-Type" :> "application/json"),
   body |-> JsonDumps([error |-> "Missing required field: text"])]

BadRequestResponse ==
  [statusCode |-> 400, headers |-> Headers,
   body |-> JsonDumps([error |-> "Missing required field: text"])]

\* The 500 response with a fixed text in place of str(e).
ErrorResponseGeneric(msg) ==
  [statusCode |-> 500, headers |-> Headers,
   body |-> JsonDumps([error |-> "Internal server error", message |-> "Internal server error"])]

ErrorResponse(msg) ==
  [statusCode |-> 500, headers |-> Headers,
   body |-> JsonDumps([error |-> msg, message |-> "Internal server error"])]

OkResponse(result) ==
  [statusCode |-> 200, headers |-> Headers, body |-> JsonDumps(result)]

Max(a, b) == IF a >= b THEN a ELSE b

\* The threshold test written with a strict comparison.
PredictResultStrict(text, toxic_score, not_toxic_score) ==
  [text |-> text,
   is_toxic |-> (2 * toxic_score > Scale),
   toxic_score |-> toxic_score,
   not_toxic_score |-> not_toxic_score,
   confidence |-> Max(toxic_score, not_toxic_score)]

\* The confidence taken from the toxic score alone.
PredictResultToxicConfidence(text, toxic_score, not_toxic_score) ==
  [text |-> text,
   is_toxic |-> (2 * toxic_score >= Scale),
   toxic_score |-> toxic_score,
   not_toxic_score |-> not_toxic_score,
   confidence |-> toxic_score]

\* Lines 169-179: the result dict from the model's two scores.
PredictResult(text, toxic_score, not_toxic_score) ==
  [text |-> text,
   is_toxic |-> (2 * toxic_score >= Scale),
   toxic_score |-> toxic_score,
   not_toxic_score |-> not_toxic_score,
   confidence |-> Max(toxic_score, not_toxic_score)]

(* ----------------------------- state ----------------------------------- *)
IdleInv ==
  [pc |-> "idle", event |-> NoEvent, text |-> "", dir |-> None, todo |-> <<>>,
   loadCalls |-> 0, listings |-> 0, downloads |-> 0,
   prov |-> "none", infer |-> "none", cats |-> <<0, 0>>, exc |-> "",
   response |-> NoResponse]

InitDisks == { {}, {<<WellKnownDir, MarkerFile>>} }

InitCommon ==
  /\ nlp_model = None
  /\ model_loaded = FALSE
  /\ files \in InitDisks
  /\ nextTmp = 0
  /\ epoch = 0
  /\ lastProv = "none"
  /\ inv = [i \in Slots |-> IdleInv]

Init == InitCommon /\ overlap = FALSE

InitOverlap == InitCommon /\ overlap = TRUE

Quiet(i) == inv[i].pc \in {"idle", "done"}
AllQuiet == \A i \in Slots : Quiet(i)

\* The cache test that never hits.
UseCachedNever == FALSE

\* Line 73.
UseCached == model_loaded /\ nlp_model # None

\* Line 80: os.path.exists("/tmp/toxic_chat_model_full/config.cfg").
MarkerExists == <<WellKnownDir, MarkerFile>> \in files

\* The download directory taken to be the well-known one.
TempDirWellKnown == WellKnownDir

\* The download directory with one fixed name.
TempDirFixed == WellKnownDir + 1

\* Line 37: tempfile.mkdtemp() makes a directory that did not exist.
TempDir == nextTmp + 1

\* Line 62: the object spacy.load builds from the directory.
Handle(dir) == dir

\* Line 50.
IsFolderKey(key) == key[2] = ""

\* Line 52.
RelativePath(key) == key[2]

\* The flag set before the fetch and left set when the fetch raises.
LoadModelRaiseFlagSet == nlp_model' = nlp_model /\ model_loaded' = TRUE

\* Lines 65-67 and 91-93: both except clauses re-raise; the globals are not
\* assigned on the way out.
LoadModelRaise == UNCHANGED <<nlp_model, model_loaded>>

\* The exception leaving lambda_handler instead of being turned into the
\* 500 response.
FailPropagating(r, msg, prov, infer) ==
  [r EXCEPT !.pc = "raised", !.exc = msg, !.prov = prov, !.infer = infer]

\* Lines 139-153: the invocation ends with the 500 response carrying str(e).
Fail(r, msg, prov, infer) ==
  [r EXCEPT !.pc = "done", !.exc = msg, !.prov = prov, !.infer = infer,
            !.response = ErrorResponse(msg)]

(* ---------------------------- actions ---------------------------------- *)
\* Lines 99-121: parse, validate, read the text: the invocation's record
\* when it returns the 400 or 500 response or goes on to load_model.
InvokeRecord(e) ==
  LET fresh == [IdleInv EXCEPT !.event = e]
      p == ParseBody(e)
      m == MissingText(p.value)
      s == Subscript(p.value)
  IN  IF p.raised THEN Fail(fresh, p.msg, "none", "none")
      ELSE IF m.raised THEN Fail(fresh, m.msg, "none", "none")
      ELSE IF m.value
        THEN [fresh EXCEPT !.pc = "done", !.response = BadRequestResponse]
      ELSE IF s.raised THEN Fail(fresh, s.msg, "none", "none")
      ELSE [fresh EXCEPT !.pc = "load", !.text = s.value]

\* The directories still to be made by invocations about to call load_model
\* stay within MaxTmp.
RoomForFetch(i) ==
  \/ UseCached
  \/ MarkerExists
  \/ nextTmp + Cardinality({j \in Slots \ {i} : inv[j].pc = "load"}) < MaxTmp

Invoke(i, e) ==
  /\ Quiet(i)
  /\ overlap \/ (i = 1)
  /\ overlap \/ AllQuiet
  /\ InvokeRecord(e).pc = "load" => RoomForFetch(i)
  /\ inv' = [inv EXCEPT ![i] = InvokeRecord(e)]
  /\ UNCHANGED <<nlp_model, model_loaded, files, nextTmp, epoch, lastProv, overlap>>

\* Lines 73-75: the cached handle is returned.
LoadModelCached(i) ==
  /\ inv[i].pc = "load"
  /\ UseCached
  /\ inv' = [inv EXCEPT ![i].pc = "predict", ![i].loadCalls = @ + 1, ![i].prov = "cached"]
  /\ lastProv' = "cached"
  /\ UNCHANGED <<nlp_model, model_loaded, files, nextTmp, epoch, overlap>>

\* Lines 80, 83-89: the marker is found; the flag is set and nlp_model is
\* returned as it is.
LoadModelLocal(i) ==
  /\ inv[i].pc = "load"
  /\ ~UseCached
  /\ MarkerExists
  /\ model_loaded' = TRUE
  /\ inv' = [inv EXCEPT ![i].pc = "predict", ![i].loadCalls = @ + 1, ![i].prov = "local"]
  /\ lastProv' = "local"
  /\ UNCHANGED <<nlp_model, files, nextTmp, epoch, overlap>>

\* Lines 80-82 and 27-39: no marker; load_model_from_s3 makes its directory.
LoadModelRemote(i) ==
  /\ inv[i].pc = "load"
  /\ ~UseCached
  /\ ~MarkerExists
  /\ nextTmp < MaxTmp
  /\ nextTmp' = nextTmp + 1
  /\ inv' = [inv EXCEPT ![i].pc = "list", ![i].loadCalls = @ + 1, ![i].dir = TempDir]
  /\ UNCHANGED <<nlp_model, model_loaded, files, epoch, lastProv, overlap>>

\* The listing issued again after it raised.
ListObjectsRetry(i, outcome) ==
  /\ inv[i].pc = "list"
  /\ LET r == [inv[i] EXCEPT !.listings = @ + 1]
     IN  CASE outcome = "ok" ->
                /\ inv' = [inv EXCEPT ![i] = [r EXCEPT !.pc = "download", !.todo = RemoteContents]]
                /\ UNCHANGED <<nlp_model, model_loaded, lastProv>>
           [] outcome = "empty" ->
                /\ inv' = [inv EXCEPT ![i] =
                             Fail(r, "No files found in toxic_chat_model_full/", "empty", "none")]
                /\ LoadModelRaise
                /\ lastProv' = "empty"
           [] OTHER ->
                /\ inv' = [inv EXCEPT ![i] = r]
                /\ UNCHANGED <<nlp_model, model_loaded, lastProv>>
  /\ UNCHANGED <<files, nextTmp, epoch, overlap>>

\* Lines 43-46: the listing returns the objects, returns none, or raises.
ListObjects(i, outcome) ==
  /\ inv[i].pc = "list"
  /\ LET r == [inv[i] EXCEPT !.listings = @ + 1]
     IN  CASE outcome = "ok" ->
                /\ inv' = [inv EXCEPT ![i] = [r EXCEPT !.pc = "download", !.todo = RemoteContents]]
                /\ UNCHANGED <<nlp_model, model_loaded, lastProv>>
           [] outcome = "empty" ->
                /\ inv' = [inv EXCEPT ![i] =
                             Fail(r, "No files found in toxic_chat_model_full/", "empty", "none")]
                /\ LoadModelRaise
                /\ lastProv' = "empty"
           [] OTHER ->
                /\ inv' = [inv EXCEPT ![i] = Fail(r, "ListObjectsV2 failed", "list_failed", "none")]
                /\ LoadModelRaise
                /\ lastProv' = "list_failed"
  /\ UNCHANGED <<files, nextTmp, epoch, overlap>>

ListOutcomes == {"ok", "empty", "raise"}

\* Lines 48-59: one iteration of the loop over the listed objects.
DownloadNext(i, ok) ==
  /\ inv[i].pc = "download"
  /\ inv[i].todo # <<>>
  /\ LET key == Head(inv[i].todo)
         r == [inv[i] EXCEPT !.todo = Tail(@)]
     IN  IF IsFolderKey(key)
           THEN /\ ok
                /\ inv' = [inv EXCEPT ![i] = r]
                /\ UNCHANGED <<nlp_model, model_loaded, files, lastProv>>
         ELSE IF ok
           THEN /\ files' = files \cup {<<inv[i].dir, RelativePath(key)>>}
                /\ inv' = [inv EXCEPT ![i] = [r EXCEPT !.downloads = @ + 1]]
                /\ UNCHANGED <<nlp_model, model_loaded, lastProv>>
         ELSE /\ inv' = [inv EXCEPT ![i] =
                           Fail([r EXCEPT !.downloads = @ + 1], "download_file failed",
                                "download_failed", "none")]
              /\ LoadModelRaise
              /\ lastProv' = "download_failed"
              /\ UNCHANGED files
  /\ UNCHANGED <<nextTmp, epoch, overlap>>

\* Lines 62-63 and 82, 86-89: the model is loaded from the directory, the
\* handle is stored and the flag set; or spacy.load raises.
SpacyLoad(i, ok) ==
  /\ inv[i].pc = "download"
  /\ inv[i].todo = <<>>
  /\ IF ok
       THEN /\ nlp_model' = Handle(inv[i].dir)
            /\ model_loaded' = TRUE
            /\ inv' = [inv EXCEPT ![i].pc = "predict", ![i].prov = "fetched"]
            /\ lastProv' = "fetched"
       ELSE /\ inv' = [inv EXCEPT ![i] = Fail(inv[i], "spacy.load failed", "load_failed", "none")]
            /\ LoadModelRaise
            /\ lastProv' = "load_failed"
  /\ UNCHANGED <<files, nextTmp, epoch, overlap>>

Scores == 0..Scale

\* Inference that drops the cached handle when the model call raises.
PredictInvalidating(i, ok, toxic_score, not_toxic_score) ==
  /\ inv[i].pc = "predict"
  /\ inv' = [inv EXCEPT ![i] =
       IF nlp_model = None THEN Fail(inv[i], "Model not loaded", inv[i].prov, "failed")
       ELSE IF ~ok THEN Fail(inv[i], "inference failed", inv[i].prov, "failed")
       ELSE [inv[i] EXCEPT !.pc = "done", !.infer = "ok",
               !.cats = <<toxic_score, not_toxic_score>>,
               !.response = OkResponse(PredictResult(inv[i].text, toxic_score, not_toxic_score))]]
  /\ nlp_model' = IF ok THEN nlp_model ELSE None
  /\ model_loaded' = IF ok THEN model_loaded ELSE FALSE
  /\ UNCHANGED <<files, nextTmp, epoch, lastProv, overlap>>

\* Inference that clears the load flag when it finds the handle empty.
PredictClearingFlag(i, ok, toxic_score, not_toxic_score) ==
  /\ inv[i].pc = "predict"
  /\ inv' = [inv EXCEPT ![i] =
       IF nlp_model = None THEN Fail(inv[i], "Model not loaded", inv[i].prov, "failed")
       ELSE IF ~ok THEN Fail(inv[i], "inference failed", inv[i].prov, "failed")
       ELSE [inv[i] EXCEPT !.pc = "done", !.infer = "ok",
               !.cats = <<toxic_score, not_toxic_score>>,
               !.response = OkResponse(PredictResult(inv[i].text, toxic_score, not_toxic_score))]]
  /\ model_loaded' = IF nlp_model = None THEN FALSE ELSE model_loaded
  /\ UNCHANGED <<nlp_model, files, nextTmp, epoch, lastProv, overlap>>

\* Inference without the test of line 163: calling the empty handle raises.
PredictUnchecked(i, ok, toxic_score, not_toxic_score) ==
  /\ inv[i].pc = "predict"
  /\ inv' = [inv EXCEPT ![i] =
       IF nlp_model = None
         THEN Fail(inv[i], "'NoneType' object is not callable", inv[i].prov, "failed")
       ELSE IF ~ok THEN Fail(inv[i], "inference failed", inv[i].prov, "failed")
       ELSE [inv[i] EXCEPT !.pc = "done", !.infer = "ok",
               !.cats = <<toxic_score, not_toxic_score>>,
               !.response = OkResponse(PredictResult(inv[i].text, toxic_score, not_toxic_score))]]
  /\ UNCHANGED <<nlp_model, model_loaded, files, nextTmp, epoch, lastProv, overlap>>

\* Lines 158-182 and 130-137: inference and the 200 response, or the 500
\* response when the handle is empty or the model call raises.  cats holds
\* doc.cats["TOXIC"] and doc.cats["NOT_TOXIC"] as the model returned them.
Predict(i, ok, toxic_score, not_toxic_score) ==
  /\ inv[i].pc = "predict"
  /\ inv' = [inv EXCEPT ![i] =
       IF nlp_model = None THEN Fail(inv[i], "Model not loaded", inv[i].prov, "failed")
       ELSE IF ~ok THEN Fail(inv[i], "inference failed", inv[i].prov, "failed")
       ELSE [inv[i] EXCEPT !.pc = "done", !.infer = "ok",
               !.cats = <<toxic_score, not_toxic_score>>,
               !.response = OkResponse(PredictResult(inv[i].text, toxic_score, not_toxic_score))]]
  /\ UNCHANGED <<nlp_model, model_loaded, files, nextTmp, epoch, lastProv, overlap>>

\* Lines 17-18: a new process on the same disk starts with the globals reset.
Restart ==
  /\ AllQuiet
  /\ epoch < MaxEpoch
  /\ epoch' = epoch + 1
  /\ nlp_model' = None
  /\ model_loaded' = FALSE
  /\ inv' = [i \in Slots |-> IdleInv]
  /\ UNCHANGED <<files, nextTmp, lastProv, overlap>>

Next ==
  \/ \E i \in Slots, e \in Events : Invoke(i, e)
  \/ \E i \in Slots : LoadModelCached(i)
  \/ \E i \in Slots : LoadModelLocal(i)
  \/ \E i \in Slots : LoadModelRemote(i)
  \/ \E i \in Slots, o \in ListOutcomes : ListObjects(i, o)
  \/ \E i \in Slots, ok \in BOOLEAN : DownloadNext(i, ok)
  \/ \E i \in Slots, ok \in BOOLEAN : SpacyLoad(i, ok)
  \/ \E i \in Slots, ok \in BOOLEAN, t \in Scores, n \in Scores : Predict(i, ok, t, n)
  \/ Restart

Spec == Init /\ [][Next]_vars

\* Two invocations of one process interleaving at the calls that leave the
\* process; the events are the direct ones that carry a text.
OverlapEvents == {e \in Events : ~e.hasBody /\ e.hasText}

NextOverlap ==
  \/ \E i \in Slots, e \in OverlapEvents : Invoke(i, e)
  \/ \E i \in Slots : LoadModelCached(i)
  \/ \E i \in Slots : LoadModelLocal(i)
  \/ \E i \in Slots : LoadModelRemote(i)
  \/ \E i \in Slots, o \in ListOutcomes : ListObjects(i, o)
  \/ \E i \in Slots, ok \in BOOLEAN : DownloadNext(i, ok)
  \/ \E i \in Slots, ok \in BOOLEAN : SpacyLoad(i, ok)
  \/ \E i \in Slots, ok \in BOOLEAN, t \in Scores, n \in Scores : Predict(i, ok, t, n)

SpecOverlap == InitOverlap /\ [][NextOverlap]_vars

\* The steps of invocation i after its start.  Each is a call that returns
\* or raises, so an invocation under way is not left waiting for ever.
Step(i) ==
  \/ LoadModelCached(i)
  \/ LoadModelLocal(i)
  \/ LoadModelRemote(i)
  \/ \E o \in ListOutcomes : ListObjects(i, o)
  \/ \E ok \in BOOLEAN : DownloadNext(i, ok)
  \/ \E ok \in BOOLEAN : SpacyLoad(i, ok)
  \/ \E ok \in BOOLEAN, t \in Scores, n \in Scores : Predict(i, ok, t, n)

SpecLive == Init /\ [][Next]_vars /\ \A i \in Slots : WF_vars(Step(i))

TypeOK ==
  /\ nlp_model \in {None} \cup (0..MaxTmp)
  /\ model_loaded \in BOOLEAN
  /\ nextTmp \in 0..MaxTmp
  /\ epoch \in 0..MaxEpoch
  /\ \A i \in Slots : inv[i].loadCalls \in 0..1 /\ inv[i].listings \in 0..1

(* ------------------------- properties ---------------------------------- *)
\* The request, once parsed, is an object without / with the key text.
NoTextField(e) ==
  LET p == ParseBody(e) IN ~p.raised /\ p.value.kind = "dict" /\ ~p.value.has

HasTextField(e) ==
  LET p == ParseBody(e) IN ~p.raised /\ p.value.kind = "dict" /\ p.value.has

FetchFailures == {"empty", "list_failed", "download_failed", "load_failed"}

Loaded == model_loaded /\ nlp_model # None

ResultKeys == {"text", "is_toxic", "toxic_score", "not_toxic_score", "confidence"}

\* C1: between invocations the flag model_loaded is true if and only if the
\* handle nlp_model is non-empty.
C1_FlagIffHandle == AllQuiet => (model_loaded <=> nlp_model # None)

\* C2: when load_model finds the marker file in the not-loaded state it
\* returns with a non-empty handle and the flag set, having issued no remote
\* listing and no download.
C2_LocalLoadGivesHandle ==
  \A i \in Slots :
    (inv[i].prov = "local" /\ inv[i].pc \in {"predict", "done"})
      => /\ nlp_model # None
         /\ model_loaded
         /\ inv[i].listings = 0
         /\ inv[i].downloads = 0

\* C3: an invocation whose parsed request has no text field returns 400 with
\* an error key in the body, never calls load_model, and leaves the flag and
\* the handle as they were.
C3_MissingTextIs400 ==
  [][\A i \in Slots :
       (Quiet(i) /\ inv'[i].pc = "done" /\ NoTextField(inv'[i].event))
         => /\ inv'[i].response.statusCode = 400
            /\ "error" \in DOMAIN inv'[i].response.body.json
            /\ inv'[i].loadCalls = 0
            /\ inv'[i].prov = "none"
            /\ nlp_model' = nlp_model
            /\ model_loaded' = model_loaded]_vars

C3_Witness ==
  \E i \in Slots :
    /\ inv[i].pc = "done"
    /\ NoTextField(inv[i].event)
    /\ inv[i].event.hasBody
    /\ inv[i].response.statusCode = 400
    /\ Loaded

\* C4: once a load has succeeded in this process, no later step issues a
\* remote listing or a download or makes a download directory, the handle
\* stays the same, and a call of load_model with the handle cached takes the
\* cached path.
C4_NoRefetchAfterLoad ==
  [][(model_loaded /\ epoch' = epoch)
       => /\ nlp_model' = nlp_model
          /\ nextTmp' = nextTmp
          /\ files' = files
          /\ \A i \in Slots :
               /\ inv'[i].listings <= inv[i].listings
               /\ inv'[i].downloads <= inv[i].downloads
               /\ (Loaded /\ inv[i].pc = "load" /\ inv'[i].pc # "load")
                    => inv'[i].prov = "cached"]_vars

C4_Witness ==
  \E i \in Slots :
    /\ inv[i].pc = "done"
    /\ inv[i].prov = "cached"
    /\ inv[i].response.statusCode = 200
    /\ inv[i].listings = 0
    /\ inv[i].downloads = 0
    /\ nextTmp = 1

\* C5: when load_model fails (listing raises, nothing listed, a download
\* raises, the local load raises) the caller gets the failure (the 500
\* response carries its message), the flag is not-loaded and the handle is
\* empty.
C5_FailedLoadLeavesNotLoaded ==
  \A i \in Slots :
    (inv[i].pc = "done" /\ inv[i].prov \in FetchFailures)
      => /\ inv[i].response.statusCode = 500
         /\ inv[i].response.body.json.error = inv[i].exc
         /\ inv[i].exc # ""
         /\ ~model_loaded
         /\ nlp_model = None

C5_Witness ==
  \E i \in Slots :
    /\ inv[i].pc = "done"
    /\ inv[i].prov = "download_failed"
    /\ inv[i].downloads = 2
    /\ ~model_loaded
    /\ nlp_model = None
    /\ epoch = 0

\* C6: after a provisioning failure, the next call of load_model takes the
\* remote path into a directory that holds no file yet (the listing is its
\* next step); it takes neither the cached path nor the marker path.
C6_RetryIsFullFetch ==
  [][\A i \in Slots :
       (lastProv \in FetchFailures /\ inv[i].pc = "load" /\ inv'[i].pc # "load")
         => /\ inv'[i].pc = "list"
            /\ inv'[i].listings = 0
            /\ \A f \in files' : f[1] # inv'[i].dir]_vars

C6_Witness ==
  \E i \in Slots :
    /\ inv[i].pc = "list"
    /\ lastProv = "download_failed"
    /\ \E f \in files : f[1] # inv[i].dir /\ f[1] # WellKnownDir /\ f[2] = MarkerFile
    /\ ~ \E f \in files : f[2] = "textcat/model"

\* C7: once the state is loaded, no step of the same process makes the flag
\* false or changes or empties the handle.
C7_LoadedIsTerminal ==
  [][(Loaded /\ epoch' = epoch) => (model_loaded' /\ nlp_model' = nlp_model)]_vars

C7_Witness ==
  /\ Loaded
  /\ \E i \in Slots :
       /\ inv[i].pc = "done"
       /\ inv[i].prov = "cached"
       /\ inv[i].infer = "failed"
       /\ inv[i].response.statusCode = 500

\* C8: an invocation with a text field returns 500 with the failure's message
\* when provisioning or inference fails, and returns 200 with the computed
\* fields exactly when both succeed.
C8_StatusByOutcome ==
  \A i \in Slots :
    (inv[i].pc = "done" /\ HasTextField(inv[i].event))
      => /\ (inv[i].prov \in FetchFailures \/ inv[i].infer = "failed")
              => /\ inv[i].response.statusCode = 500
                 /\ inv[i].exc # ""
                 /\ inv[i].response.body.json.error = inv[i].exc
         /\ inv[i].response.statusCode = 200
              <=> (inv[i].prov \in {"cached", "local", "fetched"} /\ inv[i].infer = "ok")
         /\ inv[i].response.statusCode = 200
              => /\ DOMAIN inv[i].response.body.json = ResultKeys
                 /\ inv[i].response.body.json.text = inv[i].text

C8_Witness ==
  \E i \in Slots :
    /\ inv[i].pc = "done"
    /\ HasTextField(inv[i].event)
    /\ inv[i].prov = "fetched"
    /\ inv[i].infer = "failed"
    /\ inv[i].response.statusCode = 500
    /\ inv[i].response.body.json.error = "inference failed"

\* C9: after a successful remote fetch the marker file and the downloaded
\* tree are at the well-known path that load_model probes.
C9_FetchFillsWellKnownPath ==
  \A i \in Slots :
    inv[i].prov = "fetched"
      => /\ MarkerExists
         /\ inv[i].dir = WellKnownDir

\* C10: every response of lambda_handler has status 200, 400 or 500 and the
\* headers Content-Type = application/json and Access-Control-Allow-Origin = *.
C10_HeadersOnEveryResponse ==
  \A i \in Slots :
    inv[i].pc = "done"
      => /\ inv[i].response.statusCode \in {200, 400, 500}
         /\ DOMAIN inv[i].response.headers = {"Content-Type", "Access-Control-Allow-Origin"}
         /\ inv[i].response.headers["Content-Type"] = "application/json"
         /\ inv[i].response.headers["Access-Control-Allow-Origin"] = "*"

C10_Witness ==
  \E i \in Slots :
    /\ inv[i].pc = "done"
    /\ inv[i].response.statusCode = 400
    /\ ~inv[i].event.hasBody
    /\ "Access-Control-Allow-Origin" \in DOMAIN inv[i].response.headers

\* C11: in every success result is_toxic is true if and only if the model's
\* toxic score is at least 0.5 (2 * score >= Scale on the grid), the score
\* 0.5 itself included.
C11_ToxicIffAtLeastHalf ==
  \A i \in Slots :
    (inv[i].pc = "done" /\ inv[i].response.statusCode = 200)
      => (inv[i].response.body.json.is_toxic <=> 2 * inv[i].cats[1] >= Scale)

C11_Witness ==
  \E i \in Slots :
    /\ inv[i].pc = "done"
    /\ inv[i].response.statusCode = 200
    /\ 2 * inv[i].cats[1] = Scale
    /\ inv[i].response.body.json.is_toxic

\* C12: in every success result confidence is the larger of the two model
\* scores, and toxic_score and not_toxic_score are the model's TOXIC and
\* NOT_TOXIC outputs, for every pair of scores.
C12_ConfidenceIsMax ==
  \A i \in Slots :
    (inv[i].pc = "done" /\ inv[i].response.statusCode = 200)
      => LET r == inv[i].response.body.json
             t == inv[i].cats[1]
             n == inv[i].cats[2]
         IN  /\ r.toxic_score = t
             /\ r.not_toxic_score = n
             /\ r.confidence >= t
             /\ r.confidence >= n
             /\ r.confidence \in {t, n}

C12_Witness ==
  \E i \in Slots :
    /\ inv[i].pc = "done"
    /\ inv[i].response.statusCode = 200
    /\ inv[i].cats[2] > inv[i].cats[1]
    /\ inv[i].cats[1] + inv[i].cats[2] # Scale
    /\ inv[i].response.body.json.confidence = inv[i].cats[2]

\* C13: from every reachable state a 200 response is reachable by
\* re-invocation: an invocation with a text field in which load_model
\* returns and the model call does not raise ends with a 200 response and
\* the state loaded, whatever happened in earlier invocations.
C13_SuccessReachableByReinvocation ==
  \A i \in Slots :
    ( /\ inv[i].pc = "done"
      /\ HasTextField(inv[i].event)
      /\ inv[i].prov \in {"cached", "local", "fetched"}
      /\ inv[i].exc # "inference failed" )
      => /\ inv[i].response.statusCode = 200
         /\ Loaded

\* C14: within one invocation load_model is called at most once and at most
\* one remote listing is issued, whether or not the fetch fails.
C14_NoRetryWithinInvocation ==
  \A i \in Slots :
    /\ inv[i].loadCalls <= 1
    /\ inv[i].listings <= 1
    /\ inv[i].listings <= inv[i].loadCalls

C14_Witness ==
  \E i \in Slots :
    /\ inv[i].pc = "done"
    /\ inv[i].prov = "list_failed"
    /\ inv[i].loadCalls = 1
    /\ inv[i].listings = 1
    /\ inv[i].downloads = 0

\* C15: the flag and the handle are changed only by steps of load_model:
\* parsing and validation, inference and response shaping leave both as
\* they were, on success and on every error path.
C15_OnlyProvisionerWritesCache ==
  [][(epoch' = epoch)
       => /\ \A i \in Slots :
               (inv'[i] # inv[i] /\ inv[i].pc \in {"idle", "done", "predict"})
                 => (nlp_model' = nlp_model /\ model_loaded' = model_loaded)
          /\ (nlp_model' # nlp_model \/ model_loaded' # model_loaded)
               => \E i \in Slots :
                    /\ inv[i].pc \in {"load", "download"}
                    /\ inv'[i].pc = "predict"
                    /\ inv'[i].prov \in {"local", "fetched"}]_vars

C15_Witness ==
  \E i \in Slots :
    /\ inv[i].pc = "done"
    /\ inv[i].prov = "local"
    /\ inv[i].exc = "Model not loaded"
    /\ model_loaded
    /\ nlp_model = None

InFetch(i) == inv[i].pc \in {"list", "download"}

\* C16: with two invocations interleaving, loading is not exclusive: both
\* can be in the remote fetch at once (C16_Witness: both have listed and
\* downloaded, neither has marked the state loaded).  Whenever two are in
\* the fetch together the state is still not-loaded and each fills a
\* directory of its own, so the second fetch is redundant.
C16_ConcurrentFetchesAreRedundant ==
  \A i \in Slots : \A j \in Slots \ {i} :
    (InFetch(i) /\ InFetch(j))
      => /\ ~model_loaded
         /\ nlp_model = None
         /\ inv[i].dir # inv[j].dir
         /\ inv[i].loadCalls = 1
         /\ inv[j].loadCalls = 1

C16_Witness ==
  \A i \in Slots :
    /\ inv[i].pc = "download"
    /\ inv[i].listings = 1
    /\ inv[i].downloads >= 1
    /\ ~model_loaded
    /\ nlp_model = None

\* The body strings of the model that are not JSON.
InvalidJsonBodies == {"not json"}

\* C17: an event with a body key whose value is not valid JSON gets a 500
\* response (not 400) carrying the parser's message; load_model is not
\* called and the flag and the handle stay as they were.
C17_InvalidJsonIs500 ==
  [][\A i \in Slots :
       ( /\ Quiet(i)
         /\ inv'[i].pc = "done"
         /\ inv'[i].event.hasBody
         /\ inv'[i].event.body \in InvalidJsonBodies )
         => /\ inv'[i].response.statusCode = 500
            /\ inv'[i].response.body.json.error = inv'[i].exc
            /\ inv'[i].exc # ""
            /\ inv'[i].loadCalls = 0
            /\ inv'[i].prov = "none"
            /\ nlp_model' = nlp_model
            /\ model_loaded' = model_loaded]_vars

C17_Witness ==
  \E i \in Slots :
    /\ inv[i].pc = "done"
    /\ inv[i].event.hasBody
    /\ inv[i].event.body \in InvalidJsonBodies
    /\ inv[i].event.hasText
    /\ inv[i].response.statusCode = 500
    /\ inv[i].loadCalls = 0
    /\ Loaded

\* C18: a 200 response is returned only if the handle was non-empty and the
\* flag set when inference ran; with an empty handle the invocation ends in
\* a 500 response whose message is "Model not loaded".
C18_SuccessNeedsHandle ==
  [][\A i \in Slots :
       (inv[i].pc = "predict" /\ inv'[i].pc = "done")
         => /\ inv'[i].response.statusCode = 200 => (nlp_model # None /\ model_loaded)
            /\ nlp_model = None
                 => /\ inv'[i].response.statusCode = 500
                    /\ inv'[i].response.body.json.error = "Model not loaded"]_vars

C18_Witness ==
  \E i \in Slots :
    /\ inv[i].pc = "done"
    /\ inv[i].event.hasBody
    /\ inv[i].prov = "local"
    /\ nlp_model = None
    /\ inv[i].response.statusCode = 500
    /\ inv[i].response.body.json.error = "Model not loaded"

\* C19: lambda_handler is total: every invocation under way ends by
\* returning a response, the response is there exactly when the invocation
\* has returned, its status is 200, 400 or 500, and no exception leaves the
\* handler.
C19_HandlerIsTotal ==
  \A i \in Slots :
    /\ [](inv[i].pc = "done" => inv[i].response.statusCode \in {200, 400, 500})
    /\ [](inv[i].pc # "done" => inv[i].response = NoResponse)
    /\ [](inv[i].pc # "raised")
    /\ (~Quiet(i)) ~> (inv[i].pc = "done")

C19_Witness ==
  \E i \in Slots :
    /\ inv[i].pc = "done"
    /\ inv[i].prov = "load_failed"
    /\ inv[i].exc = "spacy.load failed"
    /\ inv[i].response.statusCode = 500
    /\ inv[i].downloads = 2

\* The serialized body {"text": t} and the two event shapes built on t.
Serialize(t) == IF t = "hi" THEN "{\"text\": \"hi\"}" ELSE "{\"text\": \"yo\"}"

DirectEvent(t) == [hasBody |-> FALSE, body |-> "", hasText |-> TRUE, text |-> t]

WithoutTopLevelText(e) == [e EXCEPT !.hasText = FALSE, !.text = ""]

SameButEvent(r1, r2) == [r1 EXCEPT !.event = NoEvent] = [r2 EXCEPT !.event = NoEvent]

\* C20: an envelope event whose body is the serialized {text: t} is handled
\* as the direct event {text: t}: the handler's parse step gives the same
\* record (same response or same text passed on, the event apart), the text
\* used and returned is t, and a top-level text next to a body key changes
\* nothing.  The steps after the parse read the text only, never the event.
C20_EventShapesEquivalent ==
  \A i \in Slots :
    LET e == inv[i].event IN
    (inv[i].pc # "idle" /\ e.hasBody)
      => /\ SameButEvent(InvokeRecord(e), InvokeRecord(WithoutTopLevelText(e)))
         /\ \A t \in Texts :
              e.body = Serialize(t)
                => /\ SameButEvent(InvokeRecord(e), InvokeRecord(DirectEvent(t)))
                   /\ inv[i].text = t
                   /\ inv[i].response.statusCode # 400
                   /\ inv[i].response.statusCode = 200
                        => inv[i].response.body.json.text = t

C20_Witness ==
  \E i \in Slots :
    /\ inv[i].pc = "done"
    /\ inv[i].event.hasBody
    /\ inv[i].event.body = Serialize("hi")
    /\ inv[i].event.hasText
    /\ inv[i].event.text = "yo"
    /\ inv[i].response.statusCode = 200
    /\ inv[i].response.body.json.text = "hi"

====
